---- MODULE Spec2Model ----
(***************************************************************************)
(* Model of scrapegraphai/builders/graph_builder.py.                       *)
(*                                                                         *)
(* Two operations of GraphBuilder are modelled, each as one atomic step    *)
(* over an input drawn in the initial state:                               *)
(*   - convert_json_to_graphviz(json_data): the drawing calls it makes on  *)
(*     the graphviz.Digraph object, in order (specification Spec);         *)
(*   - _create_llm(llm_config): the merge with the defaults, the api_key   *)
(*     check and the provider selection (specification SpecLLM).           *)
(*                                                                         *)
(* JSON values are tagged records [kind, val] so that Python's dynamic     *)
(* tests (isinstance(x, list), x == None) can be written down.  Python     *)
(* dicts whose keys may be missing are functions over the present keys.    *)
(* Python strings that are searched for substrings are sequences of        *)
(* one-character strings.                                                  *)
(***************************************************************************)
EXTENDS Integers, Sequences, FiniteSets, TLC

VARIABLES json_data, pc, graph, error,
          llm_config, llm_pc, llm_params, llm, llm_error

vars == <<json_data, pc, graph, error,
          llm_config, llm_pc, llm_params, llm, llm_error>>

renderVars == <<json_data, pc, graph, error>>
llmVars == <<llm_config, llm_pc, llm_params, llm, llm_error>>

(***************************************************************************)
(* Bounds of the explored inputs.                                          *)
(***************************************************************************)
\* Size of a graph description: one per node entry, one per edge, one more
\* per element of an edge's "to" list.
MaxSize == 4
\* Number of fragments a model name is put together from.
MaxFrags == 2

(***************************************************************************)
(* JSON values.                                                            *)
(***************************************************************************)
Str(s) == [kind |-> "str", val |-> s]
Num == [kind |-> "num", val |-> "7"]
None == [kind |-> "null", val |-> "None"]
List(s) == [kind |-> "list", val |-> s]

Names == {"a", "b"}
NameValues == {Str(n) : n \in Names}
\* Values an edge's "to" (or an element of its list) is drawn from.
Scalars == NameValues \cup {Num}

\* dict.get(key, default)
Get(d, key, default) == IF key \in DOMAIN d THEN d[key] ELSE default

(***************************************************************************)
(* Graph descriptions handed to convert_json_to_graphviz.                  *)
(***************************************************************************)
NodeEntries == {[node_name |-> n] : n \in NameValues}

NodeListsOfSize(n) == [1..n -> NodeEntries]

\* The "to" values of an edge of size k: a single value (size 1) or a list
\* of k - 1 values.
ToOfSize(k) ==
  (IF k = 1 THEN Scalars ELSE {}) \cup {List(s) : s \in [1..(k - 1) -> Scalars]}

EdgesOfSize(k) == {[from |-> f, to |-> t] : f \in NameValues, t \in ToOfSize(k)}

EdgesUpToSize(k) == UNION {EdgesOfSize(j) : j \in 1..k}

EdgeSize(edge) == IF edge.to.kind = "list" THEN 1 + Len(edge.to.val) ELSE 1

RECURSIVE EdgeListSize(_)
EdgeListSize(edges) ==
  IF edges = <<>> THEN 0 ELSE EdgeSize(Head(edges)) + EdgeListSize(Tail(edges))

\* The lists of m edges of total size at most w.
EdgeLists(m, w) ==
  {edges \in [1..m -> EdgesUpToSize(w - m + 1)] : EdgeListSize(edges) <= w}

\* entry_point, when the key is present: the empty string or a name.
EntryValues == {Str("")} \cup NameValues

\* The dict with exactly the given keys out of nodes, edges, entry_point.
GraphConfig(keys, nodes, edges, entry) ==
  [k \in keys |-> CASE k = "nodes" -> nodes
                    [] k = "edges" -> edges
                    [] k = "entry_point" -> entry]

\* The key sets explored with the given values: a key whose list is empty may
\* also be missing, and entry_point may be missing whatever its value.
KeySets(nodes, edges) ==
  {(({"nodes", "edges"} \ nk) \ ek) \cup pk :
     nk \in (IF nodes = <<>> THEN SUBSET {"nodes"} ELSE {{}}),
     ek \in (IF edges = <<>> THEN SUBSET {"edges"} ELSE {{}}),
     pk \in SUBSET {"entry_point"}}

(***************************************************************************)
(* convert_json_to_graphviz                                                *)
(***************************************************************************)
\* graph.node(name) and graph.node(name, shape="doublecircle")
NodeCall(name, shape) == [op |-> "node", name |-> name, shape |-> shape]
\* graph.edge(tail, head)
EdgeCall(tail, head) == [op |-> "edge", tail |-> tail, head |-> head]

\* DrawNode without the comparison with entry_point.
DrawNodeNeverHighlighted(node, entry_point) ==
  NodeCall(node.node_name, "default")

\* Body of the loop over nodes.
DrawNode(node, entry_point) ==
  IF node.node_name = entry_point
  THEN NodeCall(node.node_name, "doublecircle")
  ELSE NodeCall(node.node_name, "default")

RECURSIVE NodeLoop(_, _)
NodeLoop(nodes, entry_point) ==
  IF nodes = <<>> THEN <<>>
  ELSE <<DrawNode(Head(nodes), entry_point)>> \o NodeLoop(Tail(nodes), entry_point)

\* EdgeTargets keeping only the first element of a list.
EdgeTargetsFirstOnly(edge) ==
  IF edge.to.kind = "list"
  THEN (IF edge.to.val = <<>> THEN <<>> ELSE <<Head(edge.to.val)>>)
  ELSE <<edge.to>>

\* The heads one edge is drawn to: isinstance(edge["to"], list) or not.
EdgeTargets(edge) ==
  IF edge.to.kind = "list" THEN edge.to.val ELSE <<edge.to>>

\* Body of the loop over edges.
DrawEdge(edge) ==
  LET targets == EdgeTargets(edge)
  IN [i \in 1..Len(targets) |-> EdgeCall(edge.from, targets[i])]

RECURSIVE EdgeLoop(_)
EdgeLoop(edges) ==
  IF edges = <<>> THEN <<>>
  ELSE DrawEdge(Head(edges)) \o EdgeLoop(Tail(edges))

\* DrawAll with the two loops exchanged.
DrawAllEdgesFirst(nodes, edges, entry_point) ==
  EdgeLoop(edges) \o NodeLoop(nodes, entry_point)

\* The two loops, one after the other.
DrawAll(nodes, edges, entry_point) ==
  NodeLoop(nodes, entry_point) \o EdgeLoop(edges)

\* graphviz is a library outside this repository: a graph.edge call whose
\* head is not a string either raises inside the library or is recorded.
MayRaise(call) == call.op = "edge" /\ call.head.kind # "str"

Nodes(cfg) == Get(cfg, "nodes", <<>>)
Edges(cfg) == Get(cfg, "edges", <<>>)
EntryPoint(cfg) == Get(cfg, "entry_point", None)

\* import graphviz fails: ImportError before anything is drawn.
ImportGraphvizFails ==
  /\ pc = "called"
  /\ pc' = "raised"
  /\ error' = "ImportError"
  /\ graph' = <<>>
  /\ UNCHANGED <<json_data, llmVars>>

\* The conversion runs to its return statement.
ConvertReturns ==
  /\ pc = "called"
  /\ LET graph_config == json_data.text[1]
     IN graph' = DrawAll(Nodes(graph_config), Edges(graph_config),
                         EntryPoint(graph_config))
  /\ pc' = "returned"
  /\ error' = "none"
  /\ UNCHANGED <<json_data, llmVars>>

\* A graph.edge call raises inside the library; the calls before it were made.
ConvertRaisesInEdge ==
  /\ pc = "called"
  /\ LET graph_config == json_data.text[1]
         calls == DrawAll(Nodes(graph_config), Edges(graph_config),
                          EntryPoint(graph_config))
     IN \E i \in 1..Len(calls) :
          /\ MayRaise(calls[i])
          /\ graph' = SubSeq(calls, 1, i - 1)
  /\ pc' = "raised"
  /\ error' = "LibraryError"
  /\ UNCHANGED <<json_data, llmVars>>

convert_json_to_graphviz ==
  \/ ImportGraphvizFails
  \/ ConvertReturns
  \/ ConvertRaisesInEdge

LLMIdle ==
  /\ llm_config = << >>
  /\ llm_pc = "idle"
  /\ llm_params = << >>
  /\ llm = "none"
  /\ llm_error = "none"

Init ==
  /\ \E n \in 0..MaxSize : \E m \in 0..(MaxSize - n) :
       \E nodes \in NodeListsOfSize(n) : \E edges \in EdgeLists(m, MaxSize - n) :
         \E entry \in EntryValues : \E keys \in KeySets(nodes, edges) :
           json_data = [text |-> <<GraphConfig(keys, nodes, edges, entry)>>]
  /\ pc = "called"
  /\ graph = <<>>
  /\ error = "none"
  /\ LLMIdle

Next == convert_json_to_graphviz

Spec == Init /\ [][Next]_vars

(***************************************************************************)
(* _create_llm                                                             *)
(***************************************************************************)
\* Pieces the explored model names are concatenated from; a piece may carry
\* a whole provider marker, a part of one, or none.
Fragments ==
  { <<"g", "p", "t", "-">>,
    <<"g", "e", "m", "i", "n", "i">>,
    <<"e", "r", "n", "i", "e">>,
    <<"g", "p", "t">>,
    <<"-">>,
    <<"g", "e", "m">>,
    <<"i", "n", "i">>,
    <<"x">> }

RECURSIVE Concat(_)
Concat(pieces) ==
  IF pieces = <<>> THEN <<>> ELSE Head(pieces) \o Concat(Tail(pieces))

ModelNames ==
  UNION {{Concat(pieces) : pieces \in [1..k -> Fragments]} : k \in 0..MaxFrags}

\* Python's  needle in hay  on strings.
Contains(needle, hay) ==
  \E i \in 0..(Len(hay) - Len(needle)) :
    SubSeq(hay, i + 1, i + Len(needle)) = needle

\* llm_defaults
llm_defaults == [temperature |-> 0, streaming |-> TRUE]

\* {**llm_defaults, **llm_config}
Merge(defaults, config) ==
  [k \in DOMAIN defaults \cup DOMAIN config |->
     IF k \in DOMAIN config THEN config[k] ELSE defaults[k]]

\* SelectProvider with the first two branches exchanged.
SelectProviderGeminiFirst(model) ==
  IF Contains(<<"g", "e", "m", "i", "n", "i">>, model)
  THEN "ChatGoogleGenerativeAI"
  ELSE IF Contains(<<"g", "p", "t", "-">>, model) THEN "ChatOpenAI"
  ELSE IF Contains(<<"e", "r", "n", "i", "e">>, model) THEN "ErnieBotChat"
  ELSE "unsupported"

\* The if / elif chain over llm_params["model"].
SelectProvider(model) ==
  IF Contains(<<"g", "p", "t", "-">>, model) THEN "ChatOpenAI"
  ELSE IF Contains(<<"g", "e", "m", "i", "n", "i">>, model)
       THEN "ChatGoogleGenerativeAI"
  ELSE IF Contains(<<"e", "r", "n", "i", "e">>, model) THEN "ErnieBotChat"
  ELSE "unsupported"

LLMConfig(keys, model, temperature, streaming) ==
  [k \in keys |-> CASE k = "api_key" -> "sk"
                    [] k = "model" -> model
                    [] k = "temperature" -> temperature
                    [] k = "streaming" -> streaming]

LLMConfigs ==
  {LLMConfig(keys, model, 1, FALSE) :
     keys \in SUBSET {"api_key", "model", "temperature", "streaming"},
     model \in ModelNames}

\* "api_key" not in llm_params
CreateLLMWithoutApiKey ==
  /\ llm_pc = "called"
  /\ llm_params' = Merge(llm_defaults, llm_config)
  /\ "api_key" \notin DOMAIN llm_params'
  /\ llm_pc' = "raised"
  /\ llm_error' = "ValueError: LLM configuration must include an 'api_key'."
  /\ UNCHANGED <<llm_config, llm, renderVars>>

\* llm_params["model"] on a dict without that key
CreateLLMWithoutModel ==
  /\ llm_pc = "called"
  /\ llm_params' = Merge(llm_defaults, llm_config)
  /\ "api_key" \in DOMAIN llm_params'
  /\ "model" \notin DOMAIN llm_params'
  /\ llm_pc' = "raised"
  /\ llm_error' = "KeyError: 'model'"
  /\ UNCHANGED <<llm_config, llm, renderVars>>

\* One of the three provider classes is instantiated with llm_params.
CreateLLMReturns ==
  /\ llm_pc = "called"
  /\ llm_params' = Merge(llm_defaults, llm_config)
  /\ "api_key" \in DOMAIN llm_params'
  /\ "model" \in DOMAIN llm_params'
  /\ SelectProvider(llm_params'["model"]) # "unsupported"
  /\ llm' = SelectProvider(llm_params'["model"])
  /\ llm_pc' = "returned"
  /\ UNCHANGED <<llm_config, llm_error, renderVars>>

\* The gemini branch: langchain_google_genai is not installed.
CreateLLMImportFails ==
  /\ llm_pc = "called"
  /\ llm_params' = Merge(llm_defaults, llm_config)
  /\ "api_key" \in DOMAIN llm_params'
  /\ "model" \in DOMAIN llm_params'
  /\ SelectProvider(llm_params'["model"]) = "ChatGoogleGenerativeAI"
  /\ llm_pc' = "raised"
  /\ llm_error' = "ImportError"
  /\ UNCHANGED <<llm_config, llm, renderVars>>

\* No branch matches.
CreateLLMUnsupported ==
  /\ llm_pc = "called"
  /\ llm_params' = Merge(llm_defaults, llm_config)
  /\ "api_key" \in DOMAIN llm_params'
  /\ "model" \in DOMAIN llm_params'
  /\ SelectProvider(llm_params'["model"]) = "unsupported"
  /\ llm_pc' = "raised"
  /\ llm_error' = "ValueError: Model not supported"
  /\ UNCHANGED <<llm_config, llm, renderVars>>

_create_llm ==
  \/ CreateLLMWithoutApiKey
  \/ CreateLLMWithoutModel
  \/ CreateLLMReturns
  \/ CreateLLMImportFails
  \/ CreateLLMUnsupported

RenderIdle ==
  /\ json_data = [text |-> <<>>]
  /\ pc = "idle"
  /\ graph = <<>>
  /\ error = "none"

InitLLM ==
  /\ llm_config \in LLMConfigs
  /\ llm_pc = "called"
  /\ llm_params = << >>
  /\ llm = "none"
  /\ llm_error = "none"
  /\ RenderIdle

NextLLM == _create_llm

SpecLLM == InitLLM /\ [][NextLLM]_vars

(***************************************************************************)
(* Properties of convert_json_to_graphviz (specification Spec).            *)
(***************************************************************************)
Description == json_data.text[1]
DescNodes == IF "nodes" \in DOMAIN Description THEN Description["nodes"] ELSE <<>>
DescEdges == IF "edges" \in DOMAIN Description THEN Description["edges"] ELSE <<>>
HasEntry == "entry_point" \in DOMAIN Description
DescNames == {DescNodes[i].node_name : i \in DOMAIN DescNodes}

NodeCalls == SelectSeq(graph, LAMBDA c : c.op = "node")
EdgeCalls == SelectSeq(graph, LAMBDA c : c.op = "edge")

\* The conversion ended and graphviz could be imported.
Processed == pc \in {"returned", "raised"} /\ error # "ImportError"

UniqueNodeNames ==
  \A i, j \in DOMAIN DescNodes :
    DescNodes[i].node_name = DescNodes[j].node_name => i = j

ValidDescription ==
  /\ UniqueNodeNames
  /\ HasEntry
  /\ Cardinality({i \in DOMAIN DescNodes :
                    DescNodes[i].node_name = Description["entry_point"]}) = 1

\* Number of drawn edges the claim expects of one edge.
Fan(edge) == IF edge.to.kind = "list" THEN Len(edge.to.val) ELSE 1

\* Number of drawn edges expected of the edges before the j-th.
RECURSIVE Before(_)
Before(j) == IF j <= 1 THEN 0 ELSE Before(j - 1) + Fan(DescEdges[j - 1])

\* C1: for a valid description (unique node names, entry_point the name of
\* exactly one node) exactly one node is drawn per entry of nodes, exactly one
\* of them with shape doublecircle, the one named entry_point, and every other
\* one with the default style.
C1_OneNodePerEntryOnlyEntryHighlighted ==
  (pc = "returned" /\ ValidDescription) =>
    /\ Len(NodeCalls) = Len(DescNodes)
    /\ \A n \in DescNames :
         Cardinality({i \in DOMAIN NodeCalls : NodeCalls[i].name = n}) = 1
    /\ Cardinality({i \in DOMAIN NodeCalls :
                      NodeCalls[i].shape = "doublecircle"}) = 1
    /\ \A i \in DOMAIN NodeCalls :
         IF NodeCalls[i].name = Description["entry_point"]
         THEN NodeCalls[i].shape = "doublecircle"
         ELSE NodeCalls[i].shape = "default"

C1_Witness ==
  /\ pc = "returned"
  /\ ValidDescription
  /\ Len(DescNodes) >= 2
  /\ \E i \in DOMAIN graph :
       graph[i].op = "node" /\ graph[i].shape = "doublecircle"

\* C2: every edge whose "to" is a list of length k (k = 0 and k = 1
\* included) yields exactly k drawn edges from -> target, one per target in
\* the order of the list; an edge whose "to" is a single value yields exactly
\* one drawn edge from -> to.
C2_FanOutPerEdge ==
  pc = "returned" =>
    /\ Len(EdgeCalls) = Before(Len(DescEdges) + 1)
    /\ \A j \in DOMAIN DescEdges :
         IF DescEdges[j].to.kind = "list"
         THEN \A t \in 1..Len(DescEdges[j].to.val) :
                EdgeCalls[Before(j) + t] =
                  EdgeCall(DescEdges[j].from, DescEdges[j].to.val[t])
         ELSE EdgeCalls[Before(j) + 1] =
                EdgeCall(DescEdges[j].from, DescEdges[j].to)

C2_Witness ==
  /\ pc = "returned"
  /\ Len(DescEdges) >= 2
  /\ \E j \in DOMAIN DescEdges :
       /\ DescEdges[j].to.kind = "list"
       /\ Len(DescEdges[j].to.val) = 2
       /\ DescEdges[j].to.val[1] # DescEdges[j].to.val[2]
  /\ Len(EdgeCalls) >= 3

\* The t-th head expected of one edge.
TargetOf(edge, t) == IF edge.to.kind = "list" THEN edge.to.val[t] ELSE edge.to

\* The edge of the description the p-th drawn edge is expected to come from.
SourceOf(p) ==
  CHOOSE j \in DOMAIN DescEdges : Before(j) < p /\ p <= Before(j + 1)

\* C3: the drawing calls of one conversion are the nodes in the order of the
\* nodes list, then the edges in the order of the edges list; no node is
\* drawn after an edge.
C3_NodesThenEdgesInListOrder ==
  pc = "returned" =>
    /\ Len(graph) >= Len(DescNodes)
    /\ \A i \in DOMAIN DescNodes :
         graph[i].op = "node" /\ graph[i].name = DescNodes[i].node_name
    /\ \A i \in DOMAIN graph : i > Len(DescNodes) => graph[i].op = "edge"
    /\ \A i, k \in DOMAIN graph :
         (graph[i].op = "edge" /\ graph[k].op = "node") => k < i
    /\ \A p \in 1..(Len(graph) - Len(DescNodes)) :
         /\ \E j \in DOMAIN DescEdges : Before(j) < p /\ p <= Before(j + 1)
         /\ graph[Len(DescNodes) + p] =
              EdgeCall(DescEdges[SourceOf(p)].from,
                       TargetOf(DescEdges[SourceOf(p)], p - Before(SourceOf(p))))

C3_Witness ==
  /\ pc = "returned"
  /\ Len(DescNodes) = 2
  /\ DescNodes[1] # DescNodes[2]
  /\ Len(DescEdges) = 2
  /\ DescEdges[1].from # DescEdges[2].from
  /\ Len(graph) = 4

\* C4: a description whose entry_point is absent or empty is rejected with
\* MissingEntryPoint, and nothing is drawn.
EntryAbsentOrEmpty == ~HasEntry \/ Description["entry_point"] = Str("")

C4_MissingEntryPointRejected ==
  (Processed /\ EntryAbsentOrEmpty) =>
    (pc = "raised" /\ error = "MissingEntryPoint" /\ graph = <<>>)

\* The references of one edge to node names: its from, and its to or the
\* strings of its to list.
References(edge) ==
  {edge.from} \cup
  (IF edge.to.kind = "list"
   THEN {edge.to.val[t] : t \in DOMAIN edge.to.val}
   ELSE {edge.to})

UnknownReferences ==
  {r \in UNION {References(DescEdges[j]) : j \in DOMAIN DescEdges} :
     r.kind = "str" /\ r \notin DescNames}

\* C5: a description with an edge whose from or to names a node that is not
\* in nodes is rejected with UnknownNodeReference, and no edge to or from the
\* unknown node is drawn.
C5_UnknownEdgeReferenceRejected ==
  (Processed /\ UnknownReferences # {}) =>
    /\ pc = "raised"
    /\ error = "UnknownNodeReference"
    /\ \A i \in DOMAIN EdgeCalls :
         /\ EdgeCalls[i].tail \notin UnknownReferences
         /\ EdgeCalls[i].head \notin UnknownReferences

\* C6: a description whose non-empty entry_point names no node is rejected
\* with a validation error instead of yielding a graph without a highlighted
\* node.
EntryUnknown ==
  /\ HasEntry
  /\ Description["entry_point"] # Str("")
  /\ Description["entry_point"] \notin DescNames

C6_UnknownEntryPointRejected ==
  (Processed /\ EntryUnknown) =>
    (pc = "raised" /\ error \in {"UnknownNodeReference", "MissingEntryPoint"})

\* C7: a description in which two node entries share a name is rejected with
\* DuplicateNodeName; no name is drawn twice and no two drawn nodes are
\* highlighted.
C7_DuplicateNodeNameRejected ==
  (Processed /\ ~UniqueNodeNames) =>
    /\ pc = "raised"
    /\ error = "DuplicateNodeName"
    /\ \A i, k \in DOMAIN NodeCalls :
         NodeCalls[i].name = NodeCalls[k].name => i = k
    /\ Cardinality({i \in DOMAIN NodeCalls :
                      NodeCalls[i].shape = "doublecircle"}) <= 1

\* C8: a description with an edge whose "to" is neither a string nor a list
\* of strings is rejected with MalformedEdge, and no edge is drawn from that
\* value.
MalformedTo(edge) ==
  IF edge.to.kind = "list"
  THEN \E t \in DOMAIN edge.to.val : edge.to.val[t].kind # "str"
  ELSE edge.to.kind # "str"

C8_MalformedEdgeRejected ==
  (Processed /\ \E j \in DOMAIN DescEdges : MalformedTo(DescEdges[j])) =>
    /\ pc = "raised"
    /\ error = "MalformedEdge"
    /\ \A i \in DOMAIN EdgeCalls : EdgeCalls[i].head.kind = "str"

(***************************************************************************)
(* Properties of _create_llm (specification SpecLLM).                      *)
(***************************************************************************)
LLMDone == llm_pc \in {"returned", "raised"}

\* C9: api_key is the only mandatory key: without it _create_llm raises
\* ValueError; with it, leaving out the model name, temperature or streaming
\* causes no error, and temperature 0 and streaming True are used unless the
\* configuration overrides them.
C9_OnlyApiKeyMandatory ==
  LLMDone =>
    /\ "api_key" \notin DOMAIN llm_config =>
         /\ llm_pc = "raised"
         /\ llm_error = "ValueError: LLM configuration must include an 'api_key'."
    /\ "api_key" \in DOMAIN llm_config =>
         /\ llm_error # "KeyError: 'model'"
         /\ llm_params["temperature"] =
              (IF "temperature" \in DOMAIN llm_config
               THEN llm_config["temperature"] ELSE 0)
         /\ llm_params["streaming"] =
              (IF "streaming" \in DOMAIN llm_config
               THEN llm_config["streaming"] ELSE TRUE)

\* needle occurs in hay, position by position.
Occurs(needle, hay) ==
  \E i \in 1..Len(hay) :
    /\ i + Len(needle) - 1 <= Len(hay)
    /\ \A j \in 1..Len(needle) : hay[i + j - 1] = needle[j]

HasGpt == Occurs(<<"g", "p", "t", "-">>, llm_config["model"])
HasGemini == Occurs(<<"g", "e", "m", "i", "n", "i">>, llm_config["model"])
HasErnie == Occurs(<<"e", "r", "n", "i", "e">>, llm_config["model"])

====
